---- MODULE Spec2Model ----
(***************************************************************************)
(* A model of the iReal chart decoder of choco (parsers/ireal_parser.py).  *)
(*                                                                         *)
(* A Python str is modelled as a sequence of one-character strings, so     *)
(* "{A}" is <<"{", "A", "}">>.  Positions are 1-based here and 0-based in  *)
(* the source: a source position p is p+1 here, "not found" (-1) is 0.     *)
(* A function that may raise returns a record [err, val]: err is "" on a   *)
(* normal return and the name of the exception otherwise.                  *)
(***************************************************************************)
EXTENDS Integers, Sequences, FiniteSets, TLC

VARIABLES
    fn,             \* the operation being run
    pc,             \* "call" while it runs, then "return" or "raise"
    arg,            \* what the operation was called with
    chord_string,   \* the chord string of the current invocation / the result
    error,          \* the exception raised, "" when none
    measures,       \* the measure list being rewritten / the result
    chords,         \* chord events [measure, beat, duration, chord]
    keys,           \* key events
    time_signatures,\* time-signature events
    tunes,          \* the tunes parse_ireal_url has decoded
    pname,          \* the playlist name parse_ireal_url has found, <<>> for None
    all_metadata,   \* the records parse_ireal_forum_thread has collected
    ireal_db,       \* the registry of charts already seen
    workers         \* parse_ireal_dump: the state of the job run for each forum thread

annotation_vars == <<chords, keys, time_signatures>>
batch_vars == <<tunes, pname, all_metadata, ireal_db, workers>>
vars == <<fn, pc, arg, chord_string, error, measures, annotation_vars, batch_vars>>

\* nothing extracted yet
NoAnnotations == chords = <<>> /\ keys = <<>> /\ time_signatures = <<>>
\* no batch run yet
NoBatch ==
    tunes = <<>> /\ pname = <<>> /\ all_metadata = <<>> /\ ireal_db = {} /\ workers = <<>>

----------------------------------------------------------------------------
(* Python built-ins on strings and lists                                   *)

Min(S) == CHOOSE x \in S : \A y \in S : x <= y
Max(S) == CHOOSE x \in S : \A y \in S : x >= y

Ok(v) == [err |-> "", val |-> v]
Raise(e) == [err |-> e, val |-> <<>>]

DigitChars == <<"0", "1", "2", "3", "4", "5", "6", "7", "8", "9">>
IsDigit(c) == \E d \in 1..Len(DigitChars) : DigitChars[d] = c
DigitValue(c) == (CHOOSE d \in 1..Len(DigitChars) : DigitChars[d] = c) - 1
IsSpace(c) == c = " "

count(s, c) == Cardinality({i \in 1..Len(s) : s[i] = c})
find(s, c) == IF \E i \in 1..Len(s) : s[i] = c
              THEN Min({i \in 1..Len(s) : s[i] = c}) ELSE 0

Last(s) == s[Len(s)]

lstrip(s) ==
    LET keep == {i \in 1..Len(s) : ~IsSpace(s[i])}
    IN  IF keep = {} THEN <<>> ELSE SubSeq(s, Min(keep), Len(s))
rstrip(s) ==
    LET keep == {i \in 1..Len(s) : ~IsSpace(s[i])}
    IN  IF keep = {} THEN <<>> ELSE SubSeq(s, 1, Max(keep))
strip(s) == lstrip(rstrip(s))

RECURSIVE join(_)
join(strings) ==
    IF strings = <<>> THEN <<>> ELSE Head(strings) \o join(Tail(strings))

RECURSIVE times_str(_, _)
times_str(s, n) == IF n <= 0 THEN <<>> ELSE s \o times_str(s, n - 1)

RECURSIVE int(_)
int(digits) ==
    IF digits = <<>> THEN 0
    ELSE 10 * int(SubSeq(digits, 1, Len(digits) - 1)) + DigitValue(Last(digits))

\* re.sub(r'[..]', '', s): delete every character of the class
delete_chars(s, class) == SelectSeq(s, LAMBDA c : c \notin class)

\* s.replace("  ", " "): non-overlapping double blanks, left to right
RECURSIVE replace_double_space(_)
replace_double_space(s) ==
    IF Len(s) < 2 THEN s
    ELSE IF s[1] = " " /\ s[2] = " "
         THEN <<" ">> \o replace_double_space(SubSeq(s, 3, Len(s)))
         ELSE <<s[1]>> \o replace_double_space(Tail(s))

----------------------------------------------------------------------------
(* mjoin                                                                   *)

mjoin_separator(merged_last, next_cstring) ==
    IF Last(rstrip(merged_last)) # "|" /\ Head(lstrip(next_cstring)) # "|"
    THEN <<"|">> ELSE <<>>

RECURSIVE mjoin_loop(_, _)
mjoin_loop(merged_chords, rest) ==
    IF rest = <<>> THEN merged_chords
    ELSE mjoin_loop(
            Append(merged_chords,
                   mjoin_separator(Last(merged_chords), Head(rest)) \o Head(rest)),
            Tail(rest))

mjoin(strings) ==
    LET pre_chords == SelectSeq(strings, LAMBDA cs : strip(cs) # <<>>)
    IN  IF pre_chords = <<>> THEN Raise("IndexError")
        ELSE Ok(join(mjoin_loop(<<Head(pre_chords)>>, Tail(pre_chords))))

----------------------------------------------------------------------------
(* Tune._remove_markers, inherited from pyRealParser: "Remove ... segnos   *)
(* and codas" (comment at the call in _fill_long_repeats).                 *)

remove_markers(s) == delete_chars(s, {"Q", "S"})

----------------------------------------------------------------------------
(* ChoCoTune._insert_missing_repeat_brackets                               *)

\* the reconciler closing a last open bracket as well
insert_missing_repeat_brackets_both_ends(s) ==
    LET cbracket_opn_loc == find(s, "{")
        cbracket_cld_loc == find(s, "}")
        opened == IF cbracket_cld_loc > 0
                     /\ (cbracket_opn_loc = 0 \/ cbracket_opn_loc > cbracket_cld_loc)
                  THEN <<"{">> \o s
                  ELSE s
    IN  IF count(opened, "{") > count(opened, "}") THEN opened \o <<"}">> ELSE opened

\* the reconciler inserting only when the two counts differ
insert_missing_repeat_brackets_if_uneven(s) ==
    LET cbracket_opn_loc == find(s, "{")
        cbracket_cld_loc == find(s, "}")
    IN  IF count(s, "{") # count(s, "}")
           /\ cbracket_cld_loc > 0
           /\ (cbracket_opn_loc = 0 \/ cbracket_opn_loc > cbracket_cld_loc)
        THEN <<"{">> \o s
        ELSE s

insert_missing_repeat_brackets(s) ==
    LET cbracket_opn_loc == find(s, "{")
        cbracket_cld_loc == find(s, "}")
    IN  IF cbracket_cld_loc > 0
           /\ (cbracket_opn_loc = 0 \/ cbracket_opn_loc > cbracket_cld_loc)
        THEN <<"{">> \o s
        ELSE s

----------------------------------------------------------------------------
(* The regular expressions of _fill_long_repeats                           *)

IsNd(s, p) == p >= 1 /\ p + 1 <= Len(s) /\ s[p] = "N" /\ IsDigit(s[p + 1])
NdPositions(s) == {p \in 1..Len(s) : IsNd(s, p)}

\* re.search(r'{(.+?)}', s): [start, end] of the leftmost match, start = 0 if none
repeat_search(s) ==
    LET opens == {i \in 1..Len(s) :
                    s[i] = "{" /\ \E j \in (i + 2)..Len(s) : s[j] = "}"}
    IN  IF opens = {} THEN [start |-> 0, end |-> 0]
        ELSE LET i == Min(opens)
             IN  [start |-> i,
                  end |-> Min({j \in (i + 2)..Len(s) : s[j] = "}"})]

\* IREAL_NREP_RE = r"{.+?N\d.+?}" anchored at the "{" at position i:
\* the end of the match, 0 if there is none
nrep_match_end(s, i) ==
    LET ns == {p \in (i + 2)..Len(s) : IsNd(s, p)}
    IN  IF s[i] # "{" \/ ns = {} THEN 0
        ELSE LET p == Min(ns)
                 closes == {j \in (p + 3)..Len(s) : s[j] = "}"}
             IN  IF closes = {} THEN 0 ELSE Min(closes)

\* list(re.finditer(IREAL_NREP_RE, s)): the starts of the matches, from position from
RECURSIVE nrep_starts(_, _)
nrep_starts(s, from) ==
    LET starts == {i \in from..Len(s) : nrep_match_end(s, i) # 0}
    IN  IF starts = {} THEN <<>>
        ELSE LET i == Min(starts)
             IN  <<i>> \o nrep_starts(s, nrep_match_end(s, i) + 1)

\* re.sub(r'N\d', '', s)
remove_numbers(s) ==
    LET drop == {p \in 1..Len(s) : IsNd(s, p) \/ IsNd(s, p - 1)}
        F[i \in 0..Len(s)] ==
            IF i = 0 THEN <<>>
            ELSE IF i \in drop THEN F[i - 1] ELSE Append(F[i - 1], s[i])
    IN  F[Len(s)]

\* re.search(r'([^N]+)N\d', s).group(1): [found, group]
pre_ending_search(s) ==
    LET cands == {p \in NdPositions(s) : p > 1 /\ s[p - 1] # "N"}
    IN  IF cands = {} THEN [found |-> FALSE, group |-> <<>>]
        ELSE LET p == Min(cands)
                 a == Min({k \in 1..(p - 1) : \A m \in k..(p - 1) : s[m] # "N"})
             IN  [found |-> TRUE, group |-> SubSeq(s, a, p - 1)]

\* IREAL_REPEND_RE = r"([{\[|]?)\s*N(\d)": the match that ends with the N\d at p
\* starts at repend_start(s, p); its group(1) is non-empty iff repend_has_group
RepEndOpeners == {"{", "[", "|"}
repend_ws_start(s, p) ==
    Min({k \in 1..p : \A m \in k..(p - 1) : IsSpace(s[m])})
repend_has_group(s, p) ==
    LET w == repend_ws_start(s, p)
    IN  w > 1 /\ s[w - 1] \in RepEndOpeners
repend_start(s, p) ==
    IF repend_has_group(s, p) THEN repend_ws_start(s, p) - 1
    ELSE repend_ws_start(s, p)

\* re.sub(IREAL_REPEND_RE, mrep, s) with
\* mrep = x.group(1) + repeat if x.start() < current_bnd else x.group(0)
repend_sub(s, repeat, current_bnd) ==
    LET F[i \in 0..Len(s)] ==
            IF i = 0 THEN <<>>
            ELSE IF IsNd(s, i - 1) THEN F[i - 1]           \* the digit of a match
            ELSE IF IsNd(s, i)
                 THEN LET st == repend_start(s, i)
                      IN  IF st < current_bnd
                          THEN (IF repend_has_group(s, i)
                                THEN F[st] ELSE F[st - 1]) \o repeat
                          ELSE Append(Append(F[i - 1], s[i]), s[i + 1])
            ELSE Append(F[i - 1], s[i])
    IN  F[Len(s)]

RECURSIVE repend_loop(_, _, _, _)
repend_loop(s, repeat, current_bnd, n) ==
    IF n = 0 THEN s
    ELSE repend_loop(repend_sub(s, repeat, current_bnd), repeat, current_bnd, n - 1)

\* list(re.finditer(r'<(\d+)x>', s)): [start, end] of every match
IsCountAt(s, a, b) ==
    /\ a + 3 <= b /\ b <= Len(s)
    /\ s[a] = "<" /\ s[b] = ">" /\ s[b - 1] = "x"
    /\ \A k \in (a + 1)..(b - 2) : IsDigit(s[k])
no_repeats_matches(s) ==
    {m \in [start : 1..Len(s), end : 1..Len(s)] : IsCountAt(s, m.start, m.end)}

----------------------------------------------------------------------------
(* ChoCoTune._fill_long_repeats: one invocation, up to its recursive call.  *)
(* [err, val, recurse]: recurse is TRUE when the invocation goes on to call *)
(* itself on val, FALSE when it returns val (no repeat group was found).    *)

\* the branch for a repeat with numbered endings (N1, N2, ...)
numbered_repeat(s, m) ==
    LET full_repeat == SubSeq(s, m.start + 1, m.end - 1)
        macro_repeats == nrep_starts(s, 1)
    IN  IF macro_repeats = <<>> THEN Raise("IndexError")
        ELSE
        LET current_mrstart == macro_repeats[1]
            current_bnd == IF Len(macro_repeats) > 1
                           THEN macro_repeats[2] ELSE Len(s) + 1
            first_repeat == remove_numbers(full_repeat)
            joined == mjoin(<<SubSeq(s, 1, m.start - 1), first_repeat,
                              SubSeq(s, m.end + 1, Len(s))>>)
            pre == pre_ending_search(full_repeat)
        IN  IF ~(current_mrstart < current_bnd) THEN Raise("AssertionError")
            ELSE IF joined.err # "" THEN joined
            ELSE IF ~pre.found THEN Raise("AttributeError")
            ELSE Ok(repend_loop(joined.val, remove_markers(pre.group),
                                current_bnd, Cardinality(NdPositions(joined.val))))

\* bracket_repeat with the repetition count off by one
bracket_repeat_once_more(s, m) ==
    LET full_repeat == SubSeq(s, m.start + 1, m.end - 1)
        no_repeats_match == no_repeats_matches(full_repeat)
        last == CHOOSE x \in no_repeats_match :
                    \A y \in no_repeats_match : y.start <= x.start
        times == IF no_repeats_match = {} THEN 2
                 ELSE int(SubSeq(full_repeat, last.start + 1, last.end - 2))
        to_repeat == IF no_repeats_match = {} THEN full_repeat
                     ELSE replace_double_space(
                            SubSeq(full_repeat, 1, last.start - 1)
                            \o SubSeq(full_repeat, last.end + 1, Len(full_repeat)))
        repetitions == times_str(<<" ", "|">> \o remove_markers(to_repeat), times)
    IN  mjoin(<<SubSeq(s, 1, m.start - 1), to_repeat, repetitions,
                SubSeq(s, m.end + 1, Len(s))>>)

\* the branch for a plain bracket repeat, performed twice or <Nx> times
bracket_repeat(s, m) ==
    LET full_repeat == SubSeq(s, m.start + 1, m.end - 1)
        no_repeats_match == no_repeats_matches(full_repeat)
        last == CHOOSE x \in no_repeats_match :
                    \A y \in no_repeats_match : y.start <= x.start
        times == IF no_repeats_match = {} THEN 2
                 ELSE int(SubSeq(full_repeat, last.start + 1, last.end - 2))
        to_repeat == IF no_repeats_match = {} THEN full_repeat
                     ELSE replace_double_space(
                            SubSeq(full_repeat, 1, last.start - 1)
                            \o SubSeq(full_repeat, last.end + 1, Len(full_repeat)))
        repetitions == times_str(<<" ", "|">> \o remove_markers(to_repeat), times - 1)
    IN  mjoin(<<SubSeq(s, 1, m.start - 1), to_repeat, repetitions,
                SubSeq(s, m.end + 1, Len(s))>>)

\* _fill_long_repeats refusing a "}" that no "{" precedes
fill_long_repeats_strict(s) ==
    LET repeat_match == repeat_search(s)
        closes == {j \in 1..Len(s) : s[j] = "}"}
    IN  IF closes # {} /\ \A i \in 1..Min(closes) : s[i] # "{"
        THEN [err |-> "FormatError", val |-> <<>>, recurse |-> FALSE]
        ELSE IF repeat_match.start = 0 THEN [err |-> "", val |-> s, recurse |-> FALSE]
        ELSE LET full_repeat == SubSeq(s, repeat_match.start + 1, repeat_match.end - 1)
                 r == IF NdPositions(full_repeat) # {}
                      THEN numbered_repeat(s, repeat_match)
                      ELSE bracket_repeat(s, repeat_match)
             IN  [err |-> r.err, val |-> r.val, recurse |-> r.err = ""]

fill_long_repeats(s) ==
    LET repeat_match == repeat_search(s)
    IN  IF repeat_match.start = 0 THEN [err |-> "", val |-> s, recurse |-> FALSE]
        ELSE LET full_repeat == SubSeq(s, repeat_match.start + 1, repeat_match.end - 1)
                 r == IF NdPositions(full_repeat) # {}
                      THEN numbered_repeat(s, repeat_match)
                      ELSE bracket_repeat(s, repeat_match)
             IN  [err |-> r.err, val |-> r.val, recurse |-> r.err = ""]

\* the whole recursion, for inputs on which it ends
RECURSIVE fill_long_repeats_all(_)
fill_long_repeats_all(s) ==
    LET r == fill_long_repeats(s)
    IN  IF r.recurse THEN fill_long_repeats_all(r.val) ELSE [err |-> r.err, val |-> r.val]

----------------------------------------------------------------------------
(* ChoCoTune._fill_codas                                                   *)

\* _fill_codas repeating from the head even when there is a segno
fill_codas_from_head(s) ==
    LET qs == count(s, "Q")
        marks == {i \in 1..Len(s) : s[i] = "Q"}
    IN  IF qs > 2 THEN Raise("RuntimeError")
        ELSE IF qs = 1 THEN Ok(delete_chars(s, {"Q"}))
        ELSE IF qs = 2
             THEN Ok(delete_chars(
                        SubSeq(s, 1, Max(marks) - 1) \o SubSeq(s, 1, Min(marks) - 1)
                        \o <<" ", "|">> \o SubSeq(s, Max(marks) + 1, Len(s)),
                        {"Q", "S"}))
        ELSE Ok(s)

fill_codas(s) ==
    LET qs == count(s, "Q")
        marks == {i \in 1..Len(s) : s[i] = "Q"}
        q1 == Min(marks)
        q2 == Max(marks)
        segno == find(s, "S")        \* 0 when absent: the repeat starts at the head
        coda == SubSeq(s, q2 + 1, Len(s))
        repeat == SubSeq(s, segno + 1, q1 - 1)
        new_chord_string == SubSeq(s, 1, q2 - 1) \o repeat \o <<" ", "|">> \o coda
    IN  IF qs > 2 THEN Raise("RuntimeError")
        ELSE IF qs = 1 THEN Ok(delete_chars(s, {"Q"}))
        ELSE IF qs = 2 THEN Ok(delete_chars(new_chord_string, {"Q", "S"}))
        ELSE Ok(s)

----------------------------------------------------------------------------
(* ChoCoTune._fill_single_double_repeats                                   *)

RepeatMarkers == {"r", "x"}

\* zip(re.split(r"[rx]", measure), re.findall(r"[rx]", measure) + [""]), flattened
RECURSIVE split_markers(_)
split_markers(measure) ==
    LET at == {k \in 1..Len(measure) : measure[k] \in RepeatMarkers}
    IN  IF at = {} THEN <<measure, <<>>>>
        ELSE LET k == Min(at)
             IN  <<SubSeq(measure, 1, k - 1), <<measure[k]>>>>
                 \o split_markers(SubSeq(measure, k + 1, Len(measure)))

\* a measure taken whole, its markers left beside its other content
measure_unsplit(measure) == <<strip(measure)>>

\* measures_xt: the stripped, non-blank pieces of one measure
measures_xt(measure) ==
    LET pieces == split_markers(measure)
        stripped == [k \in 1..Len(pieces) |-> strip(pieces[k])]
    IN  SelectSeq(stripped, LAMBDA val : val # <<>>)

RECURSIVE pre_measures_of(_)
pre_measures_of(ms) ==
    IF ms = <<>> THEN <<>> ELSE measures_xt(Head(ms)) \o pre_measures_of(Tail(ms))

\* slots given only to an "r" that ends the list
RECURSIVE reserve_last_slot_from(_, _)
reserve_last_slot_from(pre_measures, i) ==
    IF i > Len(pre_measures) THEN <<>>
    ELSE (IF pre_measures[i] = <<"r">> /\ i = Len(pre_measures)
          THEN <<pre_measures[i], <<" ">>>>
          ELSE <<pre_measures[i]>>)
         \o reserve_last_slot_from(pre_measures, i + 1)
reserve_last_slot_only(pre_measures) == reserve_last_slot_from(pre_measures, 1)

\* "Add extra measures for double repeats": new_measures before the infilling
RECURSIVE reserve_slots_from(_, _)
reserve_slots_from(pre_measures, i) ==
    IF i > Len(pre_measures) THEN <<>>
    ELSE (IF pre_measures[i] = <<"r">>
             /\ (i = Len(pre_measures) \/ strip(pre_measures[i + 1]) # <<>>)
          THEN <<pre_measures[i], <<" ">>>>
          ELSE <<pre_measures[i]>>)
         \o reserve_slots_from(pre_measures, i + 1)
reserve_slots(pre_measures) == reserve_slots_from(pre_measures, 1)

\* new_measures[k] for a source index k = i-1 or i-2 (position p = k+1 here): a
\* negative source index counts from the end of the list
at_index(new_measures, p) ==
    IF p >= 1 THEN new_measures[p] ELSE new_measures[Len(new_measures) + p]

\* a round of the infilling loop that copies both bars of an "r" from the same bar
infill_same_bar(new_measures, i) ==
    IF new_measures[i] = <<"x">>
    THEN Ok([new_measures EXCEPT ![i] = remove_markers(new_measures[i - 1])])
    ELSE IF new_measures[i] = <<"r">>
    THEN IF i + 1 > Len(new_measures) THEN Raise("IndexError")
         ELSE IF strip(new_measures[i + 1]) # <<>> THEN Raise("AssertionError")
         ELSE Ok([new_measures EXCEPT
                    ![i] = remove_markers(at_index(new_measures, i - 1)),
                    ![i + 1] = remove_markers(at_index(new_measures, i - 1))])
    ELSE Ok(new_measures)

\* one round of the infilling loop, at position i: [err, val]
infill(new_measures, i) ==
    IF new_measures[i] = <<"x">>
    THEN Ok([new_measures EXCEPT ![i] = remove_markers(new_measures[i - 1])])
    ELSE IF new_measures[i] = <<"r">>
    THEN IF i + 1 > Len(new_measures) THEN Raise("IndexError")
         ELSE IF strip(new_measures[i + 1]) # <<>> THEN Raise("AssertionError")
         ELSE Ok([new_measures EXCEPT
                    ![i] = remove_markers(at_index(new_measures, i - 2)),
                    ![i + 1] = remove_markers(new_measures[i - 1])])
    ELSE Ok(new_measures)

\* for i in range(1, len(new_measures))
RECURSIVE infill_loop(_, _)
infill_loop(new_measures, i) ==
    IF i > Len(new_measures) THEN Ok(new_measures)
    ELSE LET r == infill(new_measures, i)
         IN  IF r.err # "" THEN r ELSE infill_loop(r.val, i + 1)

fill_single_double_repeats(ms) ==
    infill_loop(reserve_slots(pre_measures_of(ms)), 2)

----------------------------------------------------------------------------
(* Inputs                                                                  *)

MaxLen == 3          \* longest chord string enumerated symbol by symbol
MaxEndings == 2      \* most numbered endings after the first one
MaxTimes == 3        \* largest explicit repeat count <Nx>

RECURSIVE StringsUpTo(_, _)
StringsUpTo(alphabet, n) ==
    IF n = 0 THEN {<<>>}
    ELSE LET shorter == StringsUpTo(alphabet, n - 1)
         IN  shorter \cup {Append(s, c) : s \in {x \in shorter : Len(x) = n - 1},
                                          c \in alphabet}

RepeatAlphabet == {"{", "}", "N", "1", "A", "|", " "}
ShortStrings == StringsUpTo(RepeatAlphabet, MaxLen)

\* "{" content "}" and "{" content "<Nx>" "}"
Contents ==
    {s \in StringsUpTo({"A", "Q", "|", " "}, 3) : s # <<>>}
CountAnnotation(n) == <<"<", DigitChars[n + 1], "x", ">">>
Counted(content, n) ==
    <<"{">> \o content \o (IF n = 0 THEN <<>> ELSE CountAnnotation(n)) \o <<"}">>
CountedInputs == {Counted(c, n) : c \in Contents, n \in 0..MaxTimes}

\* "{" pre "N1" first "}" "N2" e2 "N3" e3 ...
Chunks == {<<"A">>, <<"B", " ">>, <<" ", "A">>, <<"|", "B">>, <<"A", "|">>, <<" ">>}
RECURSIVE LaterEndings(_, _)
LaterEndings(endings, k) ==
    IF endings = <<>> THEN <<>>
    ELSE <<"N", DigitChars[k + 1]>> \o Head(endings) \o LaterEndings(Tail(endings), k + 1)
Numbered(pre, first, endings) ==
    <<"{">> \o pre \o <<"N", "1">> \o first \o <<"}">> \o LaterEndings(endings, 2)
EndingLists == UNION {[1..n -> Chunks] : n \in 1..MaxEndings}
NumberedInputs ==
    {Numbered(pre, first, endings) :
        pre \in Chunks, first \in Chunks, endings \in EndingLists}

\* two repeats with endings, one after the other
ShortChunks == {<<"A">>, <<"B", " ">>, <<" ", "A">>}
TwoNumberedInputs ==
    {Numbered(g[1], g[2], <<g[3]>>) \o Numbered(g[4], g[5], <<g[6]>>) :
        g \in [1..6 -> ShortChunks]}

\* "{Cmaj7 Dm7 <3x>}" and "{Am N1 G |}N2 F"
ExampleCounted ==
    <<"{", "C", "m", "a", "j", "7", " ", "D", "m", "7", " ", "<", "3", "x", ">", "}">>
ExampleNumbered ==
    <<"{", "A", "m", " ", "N", "1", " ", "G", " ", "|", "}", "N", "2", " ", "F">>

RepeatInputs ==
    ShortStrings \cup CountedInputs \cup NumberedInputs \cup TwoNumberedInputs
    \cup {ExampleCounted, ExampleNumbered}

----------------------------------------------------------------------------
(* The Repeat Expansion Engine as a state machine: every invocation of     *)
(* _fill_long_repeats is one step, the recursive call is the next step.    *)

InitRepeats ==
    /\ fn = "fill_long_repeats"
    /\ pc = "call"
    /\ arg \in RepeatInputs
    /\ chord_string = arg
    /\ error = ""
    /\ measures = <<>>
    /\ NoAnnotations /\ NoBatch

FillLongRepeats ==
    /\ fn = "fill_long_repeats" /\ pc = "call"
    /\ LET r == fill_long_repeats(chord_string)
       IN  /\ pc' = IF r.err # "" THEN "raise" ELSE IF r.recurse THEN "call" ELSE "return"
           /\ chord_string' = IF r.err # "" THEN chord_string ELSE r.val
           /\ error' = r.err
    /\ UNCHANGED <<fn, arg, measures, annotation_vars, batch_vars>>

NextRepeats == FillLongRepeats

SpecRepeats == InitRepeats /\ [][NextRepeats]_vars

----------------------------------------------------------------------------
(* Claims about the Repeat Expansion Engine                                *)

HasBracket(s) == count(s, "{") > 0 \/ count(s, "}") > 0
HasNumberedEnding(s) == NdPositions(s) # {}

\* C1: for every input with as many "{" as "}", the string _fill_long_repeats
\* returns holds no "{", no "}" and no numbered-ending marker (N and a digit).
C1_NoMarkersRemain ==
    (pc = "return" /\ count(arg, "{") = count(arg, "}"))
        => (~HasBracket(chord_string) /\ ~HasNumberedEnding(chord_string))

\* the chords of a string, in order (the inputs spell chords "A" and "B")
ChordLetters(s) == SelectSeq(s, LAMBDA c : c \in {"A", "B"})

\* what a repeat with numbered endings plays: the pre-ending content and the first
\* ending, then for every later ending the pre-ending content and that ending
RECURSIVE PlayEndings(_, _)
PlayEndings(pre, endings) ==
    IF endings = <<>> THEN <<>>
    ELSE pre \o Head(endings) \o PlayEndings(pre, Tail(endings))
Play(pre, first, endings) == pre \o first \o PlayEndings(pre, endings)

Finished == pc \in {"return", "raise"}

C3_OneGroup ==
    \A pre \in Chunks, first \in Chunks, endings \in EndingLists :
        (Finished /\ arg = Numbered(pre, first, endings))
            => /\ pc = "return"
               /\ ChordLetters(chord_string) = ChordLetters(Play(pre, first, endings))
               /\ ~HasNumberedEnding(chord_string)

C3_TwoGroups ==
    \A g \in [1..6 -> ShortChunks] :
        (Finished /\ arg = Numbered(g[1], g[2], <<g[3]>>) \o Numbered(g[4], g[5], <<g[6]>>))
            => /\ pc = "return"
               /\ ChordLetters(chord_string)
                    = ChordLetters(Play(g[1], g[2], <<g[3]>>) \o Play(g[4], g[5], <<g[6]>>))
               /\ ~HasNumberedEnding(chord_string)

\* C3: a repeat group with a first numbered ending, followed by further numbered
\* endings of the same repeat, expands to the pre-ending content and the first
\* ending, then for each later ending a copy of the pre-ending content followed by
\* that ending; no numbered-ending marker remains.
C3_NumberedEndings == C3_OneGroup /\ C3_TwoGroups

\* the expansion of "{" content "}" (n = 0) or "{" content "<nx>" "}": the content,
\* then the content again, coda and segno marks stripped, after each inserted " |"
RECURSIVE Occurrences(_, _)
Occurrences(content, n) ==
    IF n = 0 THEN <<>>
    ELSE <<" ", "|">> \o SelectSeq(content, LAMBDA c : c \notin {"Q", "S"})
         \o Occurrences(content, n - 1)
CountedExpansion(content, n) ==
    LET emitted == IF n = 0 THEN content ELSE replace_double_space(content)
    IN  emitted \o Occurrences(emitted, (IF n = 0 THEN 2 ELSE n) - 1)
NonBlank(s) == \E k \in 1..Len(s) : s[k] # " "

C2_General ==
    \A c \in Contents, n \in 0..MaxTimes :
        (Finished /\ arg = Counted(c, n) /\ NonBlank(c))
            => (pc = "return" /\ chord_string = CountedExpansion(c, n))

\* "Cmaj7 Dm7  |Cmaj7 Dm7  |Cmaj7 Dm7 "
ExampleCountedResult ==
    <<"C", "m", "a", "j", "7", " ", "D", "m", "7", " ", " ", "|",
      "C", "m", "a", "j", "7", " ", "D", "m", "7", " ", " ", "|",
      "C", "m", "a", "j", "7", " ", "D", "m", "7", " ">>
\* "Cmaj7 Dm7 |Cmaj7 Dm7 |Cmaj7 Dm7"
ExampleCountedClaimed ==
    <<"C", "m", "a", "j", "7", " ", "D", "m", "7", " ", "|",
      "C", "m", "a", "j", "7", " ", "D", "m", "7", " ", "|",
      "C", "m", "a", "j", "7", " ", "D", "m", "7">>

\* C2 (as amended): a repeat group "{content}" with non-blank content and no numbered
\* ending expands to the content (count annotation removed) followed by N-1 copies of
\* " |" and the content with coda/segno marks stripped, N the value of "<Nx>" and 2
\* without annotation; "{Cmaj7 Dm7 <3x>}" expands to
\* "Cmaj7 Dm7  |Cmaj7 Dm7  |Cmaj7 Dm7 ".
C2_CountedBracket ==
    /\ C2_General
    /\ (Finished /\ arg = ExampleCounted)
            => (pc = "return" /\ chord_string = ExampleCountedResult)

\* C2 (as stated): the same, with "{Cmaj7 Dm7 <3x>}" expanding to
\* "Cmaj7 Dm7 |Cmaj7 Dm7 |Cmaj7 Dm7".
C2_AsStated ==
    /\ C2_General
    /\ (Finished /\ arg = ExampleCounted)
            => (pc = "return" /\ chord_string = ExampleCountedClaimed)

C2_Witness ==
    /\ pc = "return"
    /\ arg = Counted(<<"A", "Q", " ">>, 3)
    /\ chord_string = <<"A", "Q", " ", " ", "|", "A", " ", " ", "|", "A", " ">>

----------------------------------------------------------------------------
(* The Repeat-Bracket Reconciler and the Coda/Segno Resolver: one call each *)

BracketInputs == StringsUpTo({"{", "}", "A"}, MaxLen + 2)

InitBrackets ==
    /\ fn = "insert_missing_repeat_brackets"
    /\ pc = "call"
    /\ arg \in BracketInputs
    /\ chord_string = arg
    /\ error = ""
    /\ measures = <<>>
    /\ NoAnnotations /\ NoBatch

InsertMissingRepeatBrackets ==
    /\ fn = "insert_missing_repeat_brackets" /\ pc = "call"
    /\ chord_string' = insert_missing_repeat_brackets(chord_string)
    /\ pc' = "return"
    /\ UNCHANGED <<fn, arg, error, measures, annotation_vars, batch_vars>>

NextBrackets == InsertMissingRepeatBrackets

SpecBrackets == InitBrackets /\ [][NextBrackets]_vars

\* "S Am Dm Q G C Q F"
ExampleCoda ==
    <<"S", " ", "A", "m", " ", "D", "m", " ", "Q", " ", "G", " ", "C", " ", "Q", " ", "F">>
CodaInputs == StringsUpTo({"Q", "S", "A", "B"}, MaxLen + 2) \cup {ExampleCoda}

InitCodas ==
    /\ fn = "fill_codas"
    /\ pc = "call"
    /\ arg \in CodaInputs
    /\ chord_string = arg
    /\ error = ""
    /\ measures = <<>>
    /\ NoAnnotations /\ NoBatch

FillCodas ==
    /\ fn = "fill_codas" /\ pc = "call"
    /\ LET r == fill_codas(chord_string)
       IN  /\ pc' = IF r.err # "" THEN "raise" ELSE "return"
           /\ chord_string' = IF r.err # "" THEN chord_string ELSE r.val
           /\ error' = r.err
    /\ UNCHANGED <<fn, arg, measures, annotation_vars, batch_vars>>

NextCodas == FillCodas

SpecCodas == InitCodas /\ [][NextCodas]_vars

----------------------------------------------------------------------------
(* Claims about the Reconciler and the Coda/Segno Resolver                 *)

Positions(s, c) == {k \in 1..Len(s) : s[k] = c}
CloseComesFirst(s) ==
    /\ Positions(s, "}") # {}
    /\ \A o \in Positions(s, "{") : \E c \in Positions(s, "}") : c < o
Balanced(s) == Cardinality(Positions(s, "{")) = Cardinality(Positions(s, "}"))

\* C9 (as stated): for every input, the output of _insert_missing_repeat_brackets
\* contains as many "{" as "}".
C9_AsStated == pc = "return" => Balanced(chord_string)

\* C9 (as amended): the output contains as many "{" as "}" exactly when the input has
\* one "}" more than "{" and a "}" before its first "{" (or no "{"), or has as many
\* "{" as "}" and no "}" before its first "{".
C9_BalancedExactlyWhen ==
    pc = "return" =>
        (Balanced(chord_string) <=>
            \/ /\ CloseComesFirst(arg)
               /\ Cardinality(Positions(arg, "}")) = Cardinality(Positions(arg, "{")) + 1
            \/ /\ ~CloseComesFirst(arg)
               /\ Balanced(arg))

C9_Witness ==
    /\ pc = "return"
    /\ arg = <<"A", "}">>
    /\ chord_string = <<"{", "A", "}">>

WithoutMarks(s) == SelectSeq(s, LAMBDA c : c \notin {"Q", "S"})

\* C4: with q the number of "Q" in the input s of _fill_codas: q = 0 returns s;
\* q = 1 returns s without that mark; q = 2 returns (s up to the second mark) +
\* (s from after the first "S", or from its start, up to the first mark) + " |" +
\* (s after the second mark) with every "Q" and "S" removed; q > 2 raises. A
\* returned string holds no "Q".
C4_Codas ==
    LET marks == Positions(arg, "Q")
        q == Cardinality(marks)
        first == CHOOSE k \in marks : \A m \in marks : k <= m
        second == CHOOSE k \in marks : \A m \in marks : k >= m
        segnos == Positions(arg, "S")
        from == IF segnos = {} THEN 1
                ELSE 1 + (CHOOSE k \in segnos : \A m \in segnos : k <= m)
    IN  Finished =>
        /\ q = 0 => (pc = "return" /\ chord_string = arg)
        /\ q = 1 => /\ pc = "return"
                    /\ chord_string = SubSeq(arg, 1, first - 1)
                                      \o SubSeq(arg, first + 1, Len(arg))
        /\ q = 2 => /\ pc = "return"
                    /\ chord_string =
                         WithoutMarks(SubSeq(arg, 1, second - 1)
                                      \o SubSeq(arg, from, first - 1)
                                      \o <<" ", "|">>
                                      \o SubSeq(arg, second + 1, Len(arg)))
        /\ q > 2 => (pc = "raise" /\ error = "RuntimeError")
        /\ pc = "return" => Positions(chord_string, "Q") = {}

\* "S Am Dm Q G C Q F" resolves to " Am Dm  G C  Am Dm  | F"
C4_Witness ==
    /\ pc = "return"
    /\ arg = ExampleCoda
    /\ chord_string =
         <<" ", "A", "m", " ", "D", "m", " ", " ", "G", " ", "C", " ", " ",
           "A", "m", " ", "D", "m", " ", " ", "|", " ", "F">>

----------------------------------------------------------------------------
(* The single/double-measure repeat pass: one call                         *)

MaxMeasures == 4     \* longest measure list

RECURSIVE ListsUpTo(_, _)
ListsUpTo(S, n) ==
    IF n = 0 THEN {<<>>}
    ELSE LET shorter == ListsUpTo(S, n - 1)
         IN  shorter \cup {Append(l, e) : l \in {x \in shorter : Len(x) = n - 1},
                                          e \in S}

\* "A", "B C", "x", "r", "", "SA" (a measure with a segno) and "Ax"
MeasureKinds ==
    {<<"A">>, <<"B", " ", "C">>, <<"x">>, <<"r">>, <<>>, <<"S", "A">>, <<"A", "x">>}

\* ["Cmaj7", "x", "Dm7 G7", "r", ""]
ExampleMeasures ==
    << <<"C", "m", "a", "j", "7">>, <<"x">>, <<"D", "m", "7", " ", "G", "7">>,
       <<"r">>, <<>> >>
\* ["Cmaj7", "Cmaj7", "Dm7 G7", "Cmaj7", "Dm7 G7"]
ExampleMeasuresResult ==
    << <<"C", "m", "a", "j", "7">>, <<"C", "m", "a", "j", "7">>,
       <<"D", "m", "7", " ", "G", "7">>, <<"C", "m", "a", "j", "7">>,
       <<"D", "m", "7", " ", "G", "7">> >>

MeasureInputs == ListsUpTo(MeasureKinds, MaxMeasures) \cup {ExampleMeasures}

InitMeasures ==
    /\ fn = "fill_single_double_repeats"
    /\ pc = "call"
    /\ arg \in MeasureInputs
    /\ measures = arg
    /\ chord_string = <<>>
    /\ error = ""
    /\ NoAnnotations /\ NoBatch

FillSingleDoubleRepeats ==
    /\ fn = "fill_single_double_repeats" /\ pc = "call"
    /\ LET r == fill_single_double_repeats(measures)
       IN  /\ pc' = IF r.err # "" THEN "raise" ELSE "return"
           /\ measures' = IF r.err # "" THEN measures ELSE r.val
           /\ error' = r.err
    /\ UNCHANGED <<fn, arg, chord_string, annotation_vars, batch_vars>>

NextMeasures == FillSingleDoubleRepeats

SpecMeasures == InitMeasures /\ [][NextMeasures]_vars

----------------------------------------------------------------------------
(* Claims about the single/double-measure repeat pass                      *)

DoubleRepeatThenNonEmpty(ms) ==
    \E k \in 1..(Len(ms) - 1) : ms[k] = <<"r">> /\ NonBlank(ms[k + 1])

\* C5 (as stated): when the measure list holds an "r" measure immediately followed by
\* a non-empty measure, the pass raises a consistency error instead of returning.
C5_AsStated ==
    (Finished /\ DoubleRepeatThenNonEmpty(arg)) => pc = "raise"

\* C5 (as amended): when the measure list holds an "r" measure immediately followed by
\* a non-empty measure, the pass raises no error: it reserves the slot after the "r"
\* itself and returns a list that holds, besides the non-empty measures it was given,
\* at least one more measure per "r" measure.
C5_SlotReserved ==
    (Finished /\ DoubleRepeatThenNonEmpty(arg))
        => /\ pc = "return"
           /\ Len(measures) >= Cardinality({k \in 1..Len(arg) : NonBlank(arg[k])})
                               + Cardinality({k \in 1..Len(arg) : arg[k] = <<"r">>})

\* ["A", "B C", "r", "A"] becomes ["A", "B C", "A", "B C", "A"]
C5_Witness ==
    /\ pc = "return"
    /\ arg = << <<"A">>, <<"B", " ", "C">>, <<"r">>, <<"A">> >>
    /\ measures = << <<"A">>, <<"B", " ", "C">>, <<"A">>, <<"B", " ", "C">>, <<"A">> >>

\* the list as the pass sees it when the infilling starts: the non-blank pieces of
\* the measures, with the slot reserved after each "r"
Slotted(ms) == reserve_slots(pre_measures_of(ms))

----------------------------------------------------------------------------
(* extract_annotations_from_tune                                           *)

\* str.split(): the maximal runs of non-blank characters
RECURSIVE split_loop(_, _, _, _)
split_loop(s, p, word, words) ==
    IF p > Len(s)
    THEN IF word = <<>> THEN words ELSE Append(words, word)
    ELSE IF IsSpace(s[p])
         THEN split_loop(s, p + 1, <<>>,
                         IF word = <<>> THEN words ELSE Append(words, word))
         ELSE split_loop(s, p + 1, Append(word, s[p]), words)
split(s) == split_loop(s, 1, <<>>, <<>>)

\* str(n) of a natural number
RECURSIVE str(_)
str(n) ==
    IF n < 10 THEN <<DigitChars[n + 1]>>
    ELSE str(n \div 10) \o <<DigitChars[(n % 10) + 1]>>

\* beats and durations are exact fractions in lowest terms
RECURSIVE gcd(_, _)
gcd(a, b) == IF b = 0 THEN a ELSE gcd(b, a % b)
Frac(n, d) == [num |-> n \div gcd(n, d), den |-> d \div gcd(n, d)]
frac_add(x, y) == Frac(x.num * y.den + y.num * x.den, x.den * y.den)

\* a / b: [err, val]
truediv(a, b) == IF b = 0 THEN Raise("ZeroDivisionError") ELSE Ok(Frac(a, b))

\* np.cumsum: the running sums of a list
RECURSIVE cumsum(_)
cumsum(xs) ==
    IF Len(xs) <= 1 THEN xs
    ELSE LET before == cumsum(SubSeq(xs, 1, Len(xs) - 1))
         IN  Append(before, frac_add(Last(before), Last(xs)))

zip(xs, ys) == [j \in 1..Min({Len(xs), Len(ys)}) |-> <<xs[j], ys[j]>>]

\* onsets that leave out the leading zero
onsets_without_zero(chord_dur, measure_chords) ==
    cumsum([j \in 1..Len(measure_chords) |-> chord_dur])

\* equal onsets depending on within-measure chords and beats
onsets(chord_dur, measure_chords) ==
    cumsum(<<Frac(0, 1)>> \o [j \in 1..(Len(measure_chords) - 1) |-> chord_dur])

\* the chord events of measure number m: [err, val]
measure_events(m, measure, measure_beats) ==
    LET measure_chords == split(measure)
        chord_dur == truediv(measure_beats, Len(measure_chords))
    IN  IF chord_dur.err # "" THEN chord_dur
        ELSE LET oc == zip(onsets(chord_dur.val, measure_chords), measure_chords)
             IN  Ok([j \in 1..Len(oc) |-> <<m, oc[j][1], chord_dur.val, oc[j][2]>>])

\* iterating and timing chords, from measure number m on: [err, val]
RECURSIVE chords_loop(_, _, _, _)
chords_loop(ms, m, measure_beats, acc) ==
    IF m > Len(ms) THEN Ok(acc)
    ELSE LET ev == measure_events(m, ms[m], measure_beats)
         IN  IF ev.err # "" THEN ev
             ELSE chords_loop(ms, m + 1, measure_beats, acc \o ev.val)

\* [err, val] with val = [chords, keys, time_signatures]
extract_annotations_from_tune(tune) ==
    LET ms == tune.measures_as_strings
        measure_beats == tune.time_signature[1]
        beat_duration == measure_beats * Len(ms)
        timed == chords_loop(ms, 1, measure_beats, <<>>)
    IN  IF timed.err # "" THEN timed
        ELSE IF Len(split(tune.key)) # 1 THEN Raise("AssertionError")
        ELSE Ok([chords |-> timed.val,
                 keys |-> << <<1, 1, beat_duration, tune.key>> >>,
                 time_signatures |->
                     << <<1, 1, beat_duration,
                          str(tune.time_signature[1]) \o <<"/">>
                              \o str(tune.time_signature[2])>> >>])

\* measures of zero to three chords, one of them with irregular blanks
TimedMeasures ==
    {<<>>, <<"C">>, <<"C", " ", "F">>, <<"C", " ", "F", " ", "G">>,
     <<" ", "D", "-", " ", " ", "G", "7">>}
TimeSignatures == {<<4, 4>>, <<3, 4>>, <<6, 8>>, <<12, 8>>}
\* "C", "A-", two keys, no key
Keys == {<<"C">>, <<"A", "-">>, <<"C", " ", "G">>, <<>>}

Tunes ==
    [measures_as_strings : ListsUpTo(TimedMeasures, MaxMeasures),
     time_signature : TimeSignatures,
     key : Keys]

InitTiming ==
    /\ fn = "extract_annotations_from_tune"
    /\ pc = "call"
    /\ arg \in Tunes
    /\ chord_string = <<>>
    /\ error = ""
    /\ measures = <<>>
    /\ NoAnnotations /\ NoBatch

ExtractAnnotationsFromTune ==
    /\ fn = "extract_annotations_from_tune" /\ pc = "call"
    /\ LET r == extract_annotations_from_tune(arg)
       IN  /\ pc' = IF r.err # "" THEN "raise" ELSE "return"
           /\ error' = r.err
           /\ chords' = IF r.err # "" THEN chords ELSE r.val.chords
           /\ keys' = IF r.err # "" THEN keys ELSE r.val.keys
           /\ time_signatures' =
                  IF r.err # "" THEN time_signatures ELSE r.val.time_signatures
    /\ UNCHANGED <<fn, arg, chord_string, measures, batch_vars>>

NextTiming == ExtractAnnotationsFromTune

SpecTiming == InitTiming /\ [][NextTiming]_vars

----------------------------------------------------------------------------
(* Claims about the timing of the events                                   *)

\* the chord tokens of measure m of the tune
Tokens(m) == split(arg.measures_as_strings[m])
\* the number of chord events before those of measure m
RECURSIVE EventsBefore(_)
EventsBefore(m) == IF m <= 1 THEN 0 ELSE EventsBefore(m - 1) + Len(Tokens(m - 1))

\* C7: for the measure at 1-based index m holding k >= 1 chord tokens under a time
\* signature with numerator b, exactly k chord events are emitted in token order, each
\* with measure index m and duration b/k, the i-th (0-based) at beat offset i*(b/k);
\* a 4-beat measure with 2 tokens gives offsets 0 and 2 with duration 2 each; the
\* events of different measures appear in measure order.
C7_ChordTiming ==
    pc = "return" =>
        LET b == arg.time_signature[1]
            n == Len(arg.measures_as_strings)
        IN  /\ Len(chords) = EventsBefore(n + 1)
            /\ \A m \in 1..n :
                  LET k == Len(Tokens(m))
                  IN  /\ k >= 1
                      /\ \A i \in 0..(k - 1) :
                            chords[EventsBefore(m) + i + 1]
                                = <<m, Frac(i * b, k), Frac(b, k), Tokens(m)[i + 1]>>
            /\ (b = 4 /\ n >= 1 /\ Len(Tokens(1)) = 2)
                  => /\ chords[1][2] = Frac(0, 1) /\ chords[1][3] = Frac(2, 1)
                     /\ chords[2][2] = Frac(2, 1) /\ chords[2][3] = Frac(2, 1)

\* "C F" then "C F G" in 4/4: offsets 0 and 2, then 0, 4/3 and 8/3
C7_Witness ==
    /\ pc = "return"
    /\ arg.time_signature = <<4, 4>>
    /\ arg.measures_as_strings = << <<"C", " ", "F">>, <<"C", " ", "F", " ", "G">> >>
    /\ chords = << <<1, Frac(0, 1), Frac(2, 1), <<"C">> >>,
                   <<1, Frac(2, 1), Frac(2, 1), <<"F">> >>,
                   <<2, Frac(0, 1), Frac(4, 3), <<"C">> >>,
                   <<2, Frac(4, 3), Frac(4, 3), <<"F">> >>,
                   <<2, Frac(8, 3), Frac(4, 3), <<"G">> >> >>

\* C8: exactly one key event and exactly one time-signature event are emitted per
\* chart, each with beat offset 0 and duration equal to beats-per-measure times the
\* number of measures.
C8_KeyAndTimeSignature ==
    pc = "return" =>
        LET whole == arg.time_signature[1] * Len(arg.measures_as_strings)
        IN  /\ Len(keys) = 1
            /\ Len(time_signatures) = 1
            /\ keys[1][2] = 0 /\ keys[1][3] = whole
            /\ time_signatures[1][2] = 0 /\ time_signatures[1][3] = whole

\* one event each, of the whole duration (whatever the offset)
C8_OneEventEach ==
    pc = "return" =>
        LET whole == arg.time_signature[1] * Len(arg.measures_as_strings)
        IN  /\ Len(keys) = 1 /\ keys[1][3] = whole /\ keys[1][4] = arg.key
            /\ Len(time_signatures) = 1 /\ time_signatures[1][3] = whole

----------------------------------------------------------------------------
(* Batch decoding: parse_ireal_url and parse_ireal_forum_thread            *)

None == <<>>

\* An iReal url is held as the outcome of matching it and the pieces between its
\* "===" separators: [valid, parts].
\* split_ireal_charts: [err, val]
split_ireal_charts(ireal_url) ==
    IF ~ireal_url.valid THEN Raise("RuntimeError")
    ELSE Ok(SelectSeq(ireal_url.parts, LAMBDA c : c # <<>>))

\* The constructor of a tune, which decodes the chart: [err, val].  Which charts it
\* rejects is given with the input: a chart holding "?" stands for one whose
\* decoding raises, and so does a chart with no "=" (it has no fields).
ChoCoTune(chart) ==
    IF find(chart, "=") = 0 \/ find(chart, "?") # 0 THEN Raise("Exception")
    ELSE Ok([chart |-> chart])

\* the loop over the charts, from chart i on: [tunes, pname]
RECURSIVE parse_loop(_, _, _)
parse_loop(charts, i, acc) ==
    IF i > Len(charts) THEN [tunes |-> acc, pname |-> None]
    ELSE IF i = Len(charts) /\ find(charts[i], "=") = 0
         THEN [tunes |-> acc, pname |-> strip(charts[i])]
         ELSE LET tune == ChoCoTune(charts[i])
              IN  parse_loop(charts, i + 1,
                             IF tune.err = "" THEN Append(acc, tune.val) ELSE acc)

\* [err, val] with val = [tunes, pname]
parse_ireal_url(url) ==
    LET charts == split_ireal_charts(url)
    IN  IF charts.err # "" THEN charts ELSE Ok(parse_loop(charts.val, 1, <<>>))

\* The registry of charts: the charts seen, the identifiers with metadata and those
\* with a saved annotation file.  A chart's identifier is derived from its content.
register_chart(db, chart) ==
    IF chart \in db.charts THEN [id |-> None, db |-> db]
    ELSE [id |-> chart, db |-> [db EXCEPT !.charts = @ \cup {chart}]]
register_metadata(db, id_number) == [db EXCEPT !.metadata = @ \cup {id_number}]
register_jams(db, id_number) == [db EXCEPT !.jams = @ \cup {id_number}]

process_ireal_string(chart_string) == ChoCoTune(chart_string)

dataset_name == <<"d", "s">>

\* a round that records a chart whether or not its decoding raised
thread_chart_always_records(chart, st, unwritable) ==
    LET reg == register_chart(st.db, chart)
    IN  IF reg.id = None THEN st
        ELSE [db |-> reg.db,
              all_metadata |-> Append(st.all_metadata,
                                      [id |-> <<dataset_name, reg.id>>,
                                       jams_path |-> None])]

\* one round of the loop over the charts of a row; st = [db, all_metadata];
\* saving the annotation file of a chart in unwritable raises
thread_chart(chart, st, unwritable) ==
    LET reg == register_chart(st.db, chart)
    IN  IF reg.id = None THEN st
        ELSE LET decoded == process_ireal_string(chart)
             IN  IF decoded.err # ""
                 THEN [db |-> reg.db, all_metadata |-> st.all_metadata]
                 ELSE LET registered == register_metadata(reg.db, reg.id)
                          id == <<dataset_name, reg.id>>
                          jams_path == <<"j", "/">> \o id[1] \o <<"_">> \o id[2]
                      IN  IF chart \in unwritable
                          THEN [db |-> registered,
                                all_metadata |->
                                    Append(st.all_metadata,
                                           [id |-> id, jams_path |-> None])]
                          ELSE [db |-> register_jams(registered, reg.id),
                                all_metadata |->
                                    Append(st.all_metadata,
                                           [id |-> id, jams_path |-> jams_path])]

RECURSIVE thread_charts_loop(_, _, _, _)
thread_charts_loop(charts, i, st, unwritable) ==
    IF i > Len(charts) THEN st
    ELSE thread_charts_loop(charts, i + 1,
                            thread_chart(charts[i], st, unwritable), unwritable)

\* the loop over the rows of the thread, from row r on
RECURSIVE thread_rows_loop(_, _, _, _)
thread_rows_loop(thread_tunes, r, st, unwritable) ==
    IF r > Len(thread_tunes) THEN st
    ELSE LET charts_splitted == split_ireal_charts(thread_tunes[r].ireal_charts)
         IN  IF charts_splitted.err # ""
             THEN thread_rows_loop(thread_tunes, r + 1, st, unwritable)
             ELSE thread_rows_loop(
                      thread_tunes, r + 1,
                      thread_charts_loop(
                          SelectSeq(charts_splitted.val,
                                    LAMBDA c : find(c, "=") # 0),
                          1, st, unwritable),
                      unwritable)

\* [db, all_metadata]
parse_ireal_forum_thread(thread_tunes, db, unwritable) ==
    thread_rows_loop(thread_tunes, 1, [db |-> db, all_metadata |-> <<>>], unwritable)

MaxCharts == 3      \* most pieces of one url
MaxRows == 3        \* most rows of one thread

\* "A=" and "B=" decode, "?=" does not, "P " is a playlist name, "" an empty piece
ChartA == <<"A", "=">>
ChartB == <<"B", "=">>
ChartBroken == <<"?", "=">>
ChartKinds == {ChartA, ChartB, ChartBroken, <<"P", " ">>, <<>>}

Urls == [valid : BOOLEAN, parts : ListsUpTo(ChartKinds, MaxCharts)]

Row(parts) == [ireal_charts |-> [valid |-> TRUE, parts |-> parts]]
RowKinds ==
    {[ireal_charts |-> [valid |-> FALSE, parts |-> <<ChartA>>]],
     Row(<<ChartA>>),
     Row(<<ChartA, ChartBroken, ChartB>>),
     Row(<<ChartBroken, ChartA>>),
     Row(<<ChartB, <<>>, <<"P", " ">> >>),
     Row(<<ChartB, ChartB>>)}
Threads == ListsUpTo(RowKinds, MaxRows)

EmptyDb == [charts |-> {}, metadata |-> {}, jams |-> {}]
Registries == {EmptyDb, [charts |-> {ChartA}, metadata |-> {ChartA}, jams |-> {ChartA}]}

InitBatch ==
    /\ pc = "call"
    /\ chord_string = <<>> /\ error = "" /\ measures = <<>>
    /\ NoAnnotations
    /\ tunes = <<>> /\ pname = <<>> /\ all_metadata = <<>> /\ workers = <<>>
    /\ \/ fn = "parse_ireal_url" /\ arg \in Urls /\ ireal_db = EmptyDb
       \/ /\ fn = "parse_ireal_forum_thread"
          /\ ireal_db \in Registries
          /\ \E thread_tunes \in Threads :
                arg = [thread_tunes |-> thread_tunes, ireal_db |-> ireal_db]

ParseIrealUrl ==
    /\ fn = "parse_ireal_url" /\ pc = "call"
    /\ LET r == parse_ireal_url(arg)
       IN  /\ pc' = IF r.err # "" THEN "raise" ELSE "return"
           /\ error' = r.err
           /\ tunes' = IF r.err # "" THEN tunes ELSE r.val.tunes
           /\ pname' = IF r.err # "" THEN pname ELSE r.val.pname
    /\ UNCHANGED <<fn, arg, chord_string, measures, annotation_vars,
                   all_metadata, ireal_db, workers>>

ParseIrealForumThread ==
    /\ fn = "parse_ireal_forum_thread" /\ pc = "call"
    /\ \E unwritable \in SUBSET {ChartA, ChartB} :
          LET r == parse_ireal_forum_thread(arg.thread_tunes, ireal_db, unwritable)
          IN  /\ all_metadata' = r.all_metadata
              /\ ireal_db' = r.db
    /\ pc' = "return"
    /\ UNCHANGED <<fn, arg, chord_string, error, measures, annotation_vars,
                   tunes, pname, workers>>

NextBatch == ParseIrealUrl \/ ParseIrealForumThread

SpecBatch == InitBatch /\ [][NextBatch]_vars

----------------------------------------------------------------------------
(* Claims about batch decoding                                             *)

Decodes(chart) == find(chart, "=") # 0 /\ find(chart, "?") = 0

\* the subsequence of s at the positions in S
RECURSIVE At(_, _)
At(s, S) ==
    IF S = {} THEN <<>> ELSE At(s, S \ {Max(S)}) \o <<s[Max(S)]>>

\* the charts of a thread, in order: those of the rows that split, with their "="
RECURSIVE ChartsOfThread(_)
ChartsOfThread(rows) ==
    IF rows = <<>> THEN <<>>
    ELSE (IF Head(rows).ireal_charts.valid
          THEN SelectSeq(Head(rows).ireal_charts.parts, LAMBDA c : find(c, "=") # 0)
          ELSE <<>>)
         \o ChartsOfThread(Tail(rows))

\* the charts of the thread that are new to the registry and decode, in order
NewDecodedCharts ==
    LET cs == ChartsOfThread(arg.thread_tunes)
    IN  At(cs, {p \in 1..Len(cs) :
                   /\ Decodes(cs[p])
                   /\ cs[p] \notin arg.ireal_db.charts
                   /\ \A q \in 1..(p - 1) : cs[q] # cs[p]})

\* C10: in batch decoding an error raised while decoding one chart aborts that chart
\* only: the failing chart contributes no tune or metadata record, every other chart
\* of the batch is still processed, and the returned records are exactly those of
\* the successfully decoded charts, in their original order.
C10_FailuresAreIsolated ==
    pc = "return" =>
        /\ fn = "parse_ireal_url"
              => LET cs == At(arg.parts, {p \in 1..Len(arg.parts) :
                                             Decodes(arg.parts[p])})
                 IN  tunes = [j \in 1..Len(cs) |-> [chart |-> cs[j]]]
        /\ fn = "parse_ireal_forum_thread"
              => /\ Len(all_metadata) = Len(NewDecodedCharts)
                 /\ \A j \in 1..Len(all_metadata) :
                       all_metadata[j].id = <<dataset_name, NewDecodedCharts[j]>>

\* a row whose middle chart fails to decode still yields the records of the other two
C10_Witness ==
    /\ pc = "return"
    /\ fn = "parse_ireal_forum_thread"
    /\ arg.thread_tunes = <<Row(<<ChartA, ChartBroken, ChartB>>)>>
    /\ arg.ireal_db = EmptyDb
    /\ Len(all_metadata) = 2
    /\ all_metadata[1].id = <<dataset_name, ChartA>>
    /\ all_metadata[2].id = <<dataset_name, ChartB>>

----------------------------------------------------------------------------
(* parse_ireal_dump: parse_ireal_forum_thread run once per forum thread, as *)
(* jobs on worker threads that share one registry handle                    *)

\* the charts of a row that get decoded, none when the row does not split
charts_of_row(row) ==
    LET charts_splitted == split_ireal_charts(row.ireal_charts)
    IN  IF charts_splitted.err # "" THEN <<>>
        ELSE SelectSeq(charts_splitted.val, LAMBDA c : find(c, "=") # 0)

\* the job at the first chart of row r or of a later row; done when none is left
RECURSIVE enter_row(_, _)
enter_row(job, r) ==
    IF r > Len(job.thread_tunes)
    THEN [job EXCEPT !.st = "done", !.pc = "return", !.r = r, !.i = 1, !.charts = <<>>]
    ELSE IF charts_of_row(job.thread_tunes[r]) = <<>> THEN enter_row(job, r + 1)
    ELSE [job EXCEPT !.pc = "register", !.r = r, !.i = 1,
                     !.charts = charts_of_row(job.thread_tunes[r])]

\* "continue": the job at the next chart of the row, or at the next row
next_chart(job) ==
    IF job.i < Len(job.charts)
    THEN [job EXCEPT !.pc = "register", !.i = @ + 1, !.id_number = None]
    ELSE enter_row([job EXCEPT !.id_number = None], job.r + 1)

\* the record of one call made for the current chart of the job
Call(job, op, answer) ==
    [op |-> op, row |-> job.r, i |-> job.i, chart |-> job.charts[job.i],
     answer |-> answer]
called(job, op, answer) == [job EXCEPT !.calls = Append(@, Call(job, op, answer))]

\* a registration step that goes on to decode a chart already seen
register_step_without_skip(job, db) ==
    LET chart == job.charts[job.i]
        reg == register_chart(db, chart)
    IN  [db |-> reg.db,
         job |-> [called(job, "register_chart", IF reg.id = None THEN "None" ELSE "id")
                     EXCEPT !.pc = "decode", !.id_number = chart]]

\* id_number = ireal_db.register_chart(chart), and the check for a repeated entry
register_step(job, db) ==
    LET chart == job.charts[job.i]
        reg == register_chart(db, chart)
    IN  [db |-> reg.db,
         job |-> IF reg.id = None
                 THEN next_chart(called(job, "register_chart", "None"))
                 ELSE [called(job, "register_chart", "id")
                          EXCEPT !.pc = "decode", !.id_number = reg.id]]

\* the try block around process_ireal_string and register_metadata
decode_step(job, db) ==
    LET decoded == process_ireal_string(job.charts[job.i])
    IN  IF decoded.err # ""
        THEN [db |-> db, job |-> next_chart(called(job, "process_ireal_string", "raise"))]
        ELSE [db |-> register_metadata(db, job.id_number),
              job |-> [called(called(job, "process_ireal_string", "ok"),
                              "register_metadata", "ok")
                          EXCEPT !.pc = "save"]]

\* the identifier and the path given to the record, the try block around the save,
\* and the append
save_step(job, db, unwritable) ==
    LET id == <<dataset_name, job.id_number>>
        jams_path == <<"j", "/">> \o id[1] \o <<"_">> \o id[2]
    IN  IF job.charts[job.i] \in unwritable
        THEN [db |-> db,
              job |-> next_chart(
                          [called(job, "save", "raise")
                              EXCEPT !.all_metadata =
                                         Append(@, [id |-> id, jams_path |-> None])])]
        ELSE [db |-> register_jams(db, job.id_number),
              job |-> next_chart(
                          [called(called(job, "save", "ok"), "register_jams", "ok")
                              EXCEPT !.all_metadata =
                                         Append(@, [id |-> id, jams_path |-> jams_path])])]

\* itertools.chain.from_iterable over the lists the jobs returned
RECURSIVE chain(_)
chain(lists) == IF lists = <<>> THEN <<>> ELSE Head(lists) \o chain(Tail(lists))

MaxThreads == 2     \* most forum threads of one dump

\* forum threads that share charts with each other
ForumThreads ==
    {<<Row(<<ChartA, ChartBroken, ChartB>>)>>,
     <<Row(<<ChartB>>), Row(<<ChartA>>)>>,
     <<[ireal_charts |-> [valid |-> FALSE, parts |-> <<ChartA>>]],
       Row(<<ChartB, <<"P", " ">> >>)>>,
     <<Row(<<ChartBroken, ChartBroken>>)>>}

Dumps == ListsUpTo(ForumThreads, MaxThreads) \ {<<>>}

NewJob(thread_tunes) ==
    [st |-> "pending", pc |-> "call", thread_tunes |-> thread_tunes, r |-> 1, i |-> 1,
     charts |-> <<>>, id_number |-> None, all_metadata |-> <<>>, calls |-> <<>>]

InitDump ==
    /\ fn = "parse_ireal_dump"
    /\ pc = "call"
    /\ chord_string = <<>> /\ error = "" /\ measures = <<>>
    /\ NoAnnotations
    /\ tunes = <<>> /\ pname = <<>> /\ all_metadata = <<>>
    /\ ireal_db \in Registries
    /\ \E forum_threads \in Dumps, n_workers \in 1..MaxThreads,
          unwritable \in {{}, {ChartB}} :
          /\ arg = [forum_threads |-> forum_threads, n_workers |-> n_workers,
                    unwritable |-> unwritable, ireal_db |-> ireal_db]
          /\ workers = [t \in 1..Len(forum_threads) |-> NewJob(forum_threads[t])]

Jobs == DOMAIN workers
Running == {t \in Jobs : workers[t].st = "running"}

\* a worker thread takes the next forum thread and enters parse_ireal_forum_thread
Dispatch(t) ==
    /\ fn = "parse_ireal_dump" /\ pc = "call"
    /\ workers[t].st = "pending"
    /\ \A u \in 1..(t - 1) : workers[u].st # "pending"
    /\ Cardinality(Running) < arg.n_workers
    /\ workers' = [workers EXCEPT ![t] = enter_row([@ EXCEPT !.st = "running"], 1)]
    /\ UNCHANGED <<fn, pc, arg, chord_string, error, measures, annotation_vars,
                   tunes, pname, all_metadata, ireal_db>>

\* one step of the job t, which changes the job and the registry
JobStep(t, step) ==
    /\ workers' = [workers EXCEPT ![t] = step.job]
    /\ ireal_db' = step.db
    /\ UNCHANGED <<fn, pc, arg, chord_string, error, measures, annotation_vars,
                   tunes, pname, all_metadata>>

RegisterChart(t) ==
    /\ fn = "parse_ireal_dump" /\ pc = "call"
    /\ workers[t].st = "running" /\ workers[t].pc = "register"
    /\ JobStep(t, register_step(workers[t], ireal_db))

Decode(t) ==
    /\ fn = "parse_ireal_dump" /\ pc = "call"
    /\ workers[t].st = "running" /\ workers[t].pc = "decode"
    /\ JobStep(t, decode_step(workers[t], ireal_db))

Save(t) ==
    /\ fn = "parse_ireal_dump" /\ pc = "call"
    /\ workers[t].st = "running" /\ workers[t].pc = "save"
    /\ JobStep(t, save_step(workers[t], ireal_db, arg.unwritable))

\* all jobs have returned: the lists are merged
Join ==
    /\ fn = "parse_ireal_dump" /\ pc = "call"
    /\ \A t \in Jobs : workers[t].st = "done"
    /\ all_metadata' = chain([t \in 1..Len(workers) |-> workers[t].all_metadata])
    /\ pc' = "return"
    /\ UNCHANGED <<fn, arg, chord_string, error, measures, annotation_vars,
                   tunes, pname, ireal_db, workers>>

NextDump ==
    \/ \E t \in Jobs : Dispatch(t)
    \/ \E t \in Jobs : RegisterChart(t)
    \/ \E t \in Jobs : Decode(t)
    \/ \E t \in Jobs : Save(t)
    \/ Join

SpecDump == InitDump /\ [][NextDump]_vars

----------------------------------------------------------------------------
(* Claims about the registry in parse_ireal_forum_thread and parse_ireal_dump *)

\* the positions in the calls of a job at which op was called
CallsOf(job, op) == {p \in 1..Len(job.calls) : job.calls[p].op = op}
SameChart(e, f) == e.row = f.row /\ e.i = f.i

\* C11: in parse_ireal_forum_thread every chart is submitted to the registry
\* (register_chart) before any decoding of it starts, and for a chart for which the
\* registry answers None the decoder is never invoked, no metadata is registered, no
\* annotation file is saved or registered, and no record appears in the returned list.
C11_RegisterFirst ==
    \A t \in Jobs :
        LET job == workers[t]
            saved == CallsOf(job, "save")
        IN  /\ \A p \in 1..Len(job.calls) :
                  /\ job.calls[p].op # "register_chart"
                        => \E q \in 1..(p - 1) :
                              /\ job.calls[q].op = "register_chart"
                              /\ job.calls[q].answer = "id"
                              /\ SameChart(job.calls[q], job.calls[p])
                  /\ (job.calls[p].op = "register_chart" /\ job.calls[p].answer = "None")
                        => \A q \in 1..Len(job.calls) :
                              SameChart(job.calls[q], job.calls[p]) => q = p
            /\ Len(job.all_metadata) = Cardinality(saved)
            /\ \A j \in 1..Len(job.all_metadata) :
                  \E p \in saved :
                      /\ Cardinality({q \in saved : q <= p}) = j
                      /\ job.all_metadata[j].id = <<dataset_name, job.calls[p].chart>>

\* "A=" is already in the registry: of "A=", "?=", "B=" only "B=" yields a record, and
\* nothing but register_chart is called for "A="
C11_Witness ==
    /\ pc = "return"
    /\ arg.forum_threads = << <<Row(<<ChartA, ChartBroken, ChartB>>)>> >>
    /\ arg.ireal_db.charts = {ChartA}
    /\ CallsOf(workers[1], "register_chart") = {1, 2, 4}
    /\ workers[1].calls[1].answer = "None"
    /\ workers[1].calls[3].op = "process_ireal_string"
    /\ Len(all_metadata) = 1
    /\ all_metadata[1].id = <<dataset_name, ChartB>>

FreshAnswers(chart) ==
    UNION {{<<t, p>> : p \in {q \in CallsOf(workers[t], "register_chart") :
                                  /\ workers[t].calls[q].chart = chart
                                  /\ workers[t].calls[q].answer = "id"}} : t \in Jobs}
RecordsOf(chart) ==
    UNION {{<<t, j>> : j \in {k \in 1..Len(workers[t].all_metadata) :
                                  workers[t].all_metadata[k].id = <<dataset_name, chart>>}}
              : t \in Jobs}

----------------------------------------------------------------------------
(* ChoCoTune._fill_slashes                                                 *)

ChordRoots == {"A", "B", "C", "D", "E", "F", "G"}

\* IREAL_CHORD_RE matched at position p of s: the last position of the match, 0 if
\* there is none
chord_match_end(s, p) ==
    IF p > Len(s) \/ s[p] \notin (ChordRoots \cup {"n"}) \/ (p > 1 /\ s[p - 1] = "/")
    THEN 0
    ELSE LET stops == {q \in (p + 1)..Len(s) : s[q] \in (ChordRoots \cup {"/"})}
             e == IF stops = {} THEN Len(s) ELSE Min(stops) - 1
         IN  IF e + 2 <= Len(s) /\ s[e + 1] = "/" /\ s[e + 2] \in ChordRoots
             THEN IF e + 3 <= Len(s) /\ s[e + 3] \in {"#", "b"} THEN e + 3 ELSE e + 2
             ELSE e

\* chord_regex.findall(s), from position p on
RECURSIVE chord_findall_from(_, _)
chord_findall_from(s, p) ==
    IF p > Len(s) THEN <<>>
    ELSE LET e == chord_match_end(s, p)
         IN  IF e = 0 THEN chord_findall_from(s, p + 1)
             ELSE <<SubSeq(s, p, e)>> \o chord_findall_from(s, e + 1)
chord_findall(s) == chord_findall_from(s, 1)

\* re.sub(r'^(p+)', prev_chord, s)
sub_leading_slashes(s, prev_chord) ==
    LET others == {q \in 1..Len(s) : s[q] # "p"}
        run == IF others = {} THEN Len(s) ELSE Min(others) - 1
    IN  IF run = 0 THEN s ELSE prev_chord \o SubSeq(s, run + 1, Len(s))

\* a round that looks for the chord before a leading slash in the measure itself
fill_first_slash_in_same_bar(ms, i) ==
    LET slash == find(ms[i], "p")
        found == chord_findall(SubSeq(ms[i], 1, slash - 1))
    IN  IF found = <<>> THEN Raise("IndexError")
        ELSE Ok([ms EXCEPT ![i] = SubSeq(ms[i], 1, slash - 1) \o Last(found)
                                     \o <<" ">> \o SubSeq(ms[i], slash + 1, Len(ms[i]))])

\* one round of the while loop on measure i, which holds a "p": [err, val]
fill_first_slash(ms, i) ==
    LET slash == find(ms[i], "p")
    IN  IF slash = 1
        THEN LET found == chord_findall(at_index(ms, i - 1))
             IN  IF found = <<>> THEN Raise("IndexError")
                 ELSE LET prev_chord == Last(found) \o <<" ">>
                      IN  Ok([ms EXCEPT ![i] =
                                 sub_leading_slashes(prev_chord \o Tail(ms[i]),
                                                     prev_chord)])
        ELSE LET found == chord_findall(SubSeq(ms[i], 1, slash - 1))
             IN  IF found = <<>> THEN Raise("IndexError")
                 ELSE Ok([ms EXCEPT ![i] =
                            SubSeq(ms[i], 1, slash - 1) \o Last(found) \o <<" ">>
                                \o SubSeq(ms[i], slash + 1, Len(ms[i]))])

\* the loops over the measures and over the slashes of a measure, from measure i on
RECURSIVE fill_slashes_from(_, _)
fill_slashes_from(ms, i) ==
    IF i > Len(ms) THEN Ok(ms)
    ELSE IF find(ms[i], "p") = 0 THEN fill_slashes_from(ms, i + 1)
    ELSE LET r == fill_first_slash(ms, i)
         IN  IF r.err # "" THEN r ELSE fill_slashes_from(r.val, i)

fill_slashes(ms) == fill_slashes_from(ms, 1)

----------------------------------------------------------------------------
(* ChoCoTune._clean_measures                                               *)

\* utils.pad_substring(s, "n", "N"): the first n becomes a padded N
pad_substring(s, substring, replacement) ==
    LET p == find(s, substring)
    IN  IF p = 0 THEN s
        ELSE SubSeq(s, 1, p - 1) \o <<" ", replacement, " ">> \o SubSeq(s, p + 1, Len(s))

\* "No-chord symbols are padded and capitalised"
RECURSIVE pad_no_chords(_)
pad_no_chords(s) ==
    IF find(s, "n") = 0 THEN s ELSE pad_no_chords(pad_substring(s, "n", "N"))

\* group(1).split("/")[0] of a chord
root_of(chord) ==
    IF find(chord, "/") = 0 THEN chord ELSE SubSeq(chord, 1, find(chord, "/") - 1)

\* re.sub(r"W", last_root, s, count=1)
sub_first_oval(s, last_root) ==
    LET p == find(s, "W")
    IN  IF p = 0 THEN s ELSE SubSeq(s, 1, p - 1) \o last_root \o SubSeq(s, p + 1, Len(s))

\* the observations of one measure, from the k-th on; last_root = [bound, val];
\* [err, val, last_root]
RECURSIVE fill_ovals_in(_, _, _, _)
fill_ovals_in(observations, k, measure, last_root) ==
    IF k > Len(observations) THEN [err |-> "", val |-> measure, last_root |-> last_root]
    ELSE LET observation == observations[k]
             e == chord_match_end(observation, 1)
         IN  IF e # 0
             THEN fill_ovals_in(observations, k + 1, measure,
                                [bound |-> TRUE, val |-> root_of(SubSeq(observation, 1, e))])
             ELSE IF find(observation, "W") = 0
                  THEN fill_ovals_in(observations, k + 1, measure, last_root)
                  ELSE IF ~last_root.bound
                       THEN [err |-> "UnboundLocalError", val |-> measure,
                             last_root |-> last_root]
                       ELSE fill_ovals_in(observations, k + 1,
                                          sub_first_oval(measure, last_root.val),
                                          last_root)

\* "filling ovals with previous root", from measure i on: [err, val]
RECURSIVE fill_ovals(_, _, _)
fill_ovals(ms, i, last_root) ==
    IF i > Len(ms) THEN Ok(ms)
    ELSE LET r == fill_ovals_in(split(ms[i]), 1, ms[i], last_root)
         IN  IF r.err # "" THEN Raise(r.err)
             ELSE fill_ovals([ms EXCEPT ![i] = r.val], i + 1, r.last_root)

\* re.sub(r"\s\s+", " ", s)
RECURSIVE collapse_spaces(_)
collapse_spaces(s) ==
    IF Len(s) < 2 THEN s
    ELSE IF IsSpace(s[1]) /\ IsSpace(s[2]) THEN collapse_spaces(Tail(s))
    ELSE <<Head(s)>> \o collapse_spaces(Tail(s))

\* "final pass to remove extras", on one measure
remove_extras(measure) ==
    LET measure_tmp == strip(collapse_spaces(delete_chars(measure, {"U", "S"})))
    IN  IF NdPositions(measure_tmp) # {} THEN remove_numbers(measure_tmp)
        ELSE measure_tmp

\* [err, val]
clean_measures(ms) ==
    LET ovals == fill_ovals([i \in 1..Len(ms) |-> pad_no_chords(ms[i])], 1,
                            [bound |-> FALSE, val |-> <<>>])
    IN  IF ovals.err # "" THEN ovals
        ELSE Ok([i \in 1..Len(ovals.val) |-> remove_extras(ovals.val[i])])

----------------------------------------------------------------------------
(* The regular expressions of _cleanup_chord_string and                     *)
(* _remove_unsupported_annotations.  A pattern is given by the operator     *)
(* that tells where its match starting at position p ends (0: no match).    *)

\* re.sub(pattern, repl, s): non-overlapping matches, left to right
re_sub(s, match_end(_, _), repl(_, _, _)) ==
    LET F[p \in 1..(Len(s) + 1)] ==
            IF p > Len(s) THEN <<>>
            ELSE LET e == match_end(s, p)
                 IN  IF e = 0 THEN <<s[p]>> \o F[p + 1] ELSE repl(s, p, e) \o F[e + 1]
    IN  F[1]

\* a literal
lit_end(s, p, lit) ==
    IF p + Len(lit) - 1 <= Len(s) /\ SubSeq(s, p, p + Len(lit) - 1) = lit
    THEN p + Len(lit) - 1 ELSE 0

\* the last position of the run of characters of class that starts at p (p - 1: none)
run_end(s, p, class) ==
    LET others == {q \in p..Len(s) : s[q] \notin class}
    IN  IF others = {} THEN Len(s) ELSE Min(others) - 1

\* \w
WordChars ==
    {"a", "b", "c", "d", "e", "f", "g", "h", "i", "j", "k", "l", "m", "n", "o", "p",
     "q", "r", "s", "t", "u", "v", "w", "x", "y", "z",
     "A", "B", "C", "D", "E", "F", "G", "H", "I", "J", "K", "L", "M", "N", "O", "P",
     "Q", "R", "S", "T", "U", "V", "W", "X", "Y", "Z",
     "0", "1", "2", "3", "4", "5", "6", "7", "8", "9", "_"}

\* r'LZ|K'
barline_end(s, p) ==
    IF lit_end(s, p, <<"L", "Z">>) # 0 THEN p + 1 ELSE lit_end(s, p, <<"K">>)
\* r'\*\s*\*'
stars_end(s, p) ==
    IF p <= Len(s) /\ s[p] = "*"
    THEN LET e == run_end(s, p + 1, {" "})
         IN  IF e + 1 <= Len(s) /\ s[e + 1] = "*" THEN e + 1 ELSE 0
    ELSE 0
\* r'Y+'
spacers_end(s, p) == IF s[p] = "Y" THEN run_end(s, p, {"Y"}) ELSE 0
\* r'XyQ|,'
filler_end(s, p) ==
    IF lit_end(s, p, <<"X", "y", "Q">>) # 0 THEN p + 2 ELSE lit_end(s, p, <<",">>)
\* r'\|\s*\|'
empty_measure_end(s, p) ==
    IF s[p] = "|"
    THEN LET e == run_end(s, p + 1, {" "})
         IN  IF e + 1 <= Len(s) /\ s[e + 1] = "|" THEN e + 1 ELSE 0
    ELSE 0
\* r'\|\s+'
bar_spaces_end(s, p) ==
    IF s[p] = "|" /\ run_end(s, p + 1, {" "}) > p THEN run_end(s, p + 1, {" "}) ELSE 0
\* r'\s+'
spaces_end(s, p) == IF s[p] = " " THEN run_end(s, p, {" "}) ELSE 0
\* r'W(?:/[A-G][#b]?)?'
oval_end(s, p) ==
    IF s[p] # "W" THEN 0
    ELSE IF p + 2 <= Len(s) /\ s[p + 1] = "/" /\ s[p + 2] \in ChordRoots
         THEN IF p + 3 <= Len(s) /\ s[p + 3] \in {"#", "b"} THEN p + 3 ELSE p + 2
         ELSE p
\* r'[\[\]]'
square_end(s, p) == IF s[p] \in {"[", "]"} THEN p ELSE 0
\* r'(?!<\d+x>)<.*?>'
comment_end(s, p) ==
    IF s[p] # "<" THEN 0
    ELSE LET closes == {q \in (p + 1)..Len(s) : s[q] = ">"}
         IN  IF closes = {} \/ \E b \in closes : IsCountAt(s, p, b) THEN 0
             ELSE Min(closes)
\* r'\([^)]*\)'
alternative_end(s, p) ==
    IF s[p] # "(" THEN 0
    ELSE LET closes == {q \in (p + 1)..Len(s) : s[q] = ")"}
         IN  IF closes = {} THEN 0 ELSE Min(closes)
\* r'[lf]'
fermata_end(s, p) == IF s[p] \in {"l", "f"} THEN p ELSE 0
\* r'(?<!su)s(?!us)'
small_end(s, p) ==
    IF /\ s[p] = "s"
       /\ ~(p >= 3 /\ SubSeq(s, p - 2, p - 1) = <<"s", "u">>)
       /\ ~(p + 2 <= Len(s) /\ SubSeq(s, p + 1, p + 2) = <<"u", "s">>)
    THEN p ELSE 0
\* r'\*\w'
section_end(s, p) ==
    IF s[p] = "*" /\ p + 1 <= Len(s) /\ s[p + 1] \in WordChars THEN p + 1 ELSE 0
\* r'T\d+'
time_signature_end(s, p) ==
    IF s[p] = "T" /\ p + 1 <= Len(s) /\ IsDigit(s[p + 1])
    THEN run_end(s, p + 1, {DigitChars[d] : d \in 1..Len(DigitChars)}) ELSE 0

\* replacements
nothing(s, p, e) == <<>>
blank(s, p, e) == <<" ">>
bar(s, p, e) == <<"|">>
marker_x(s, p, e) == <<"x">>
padded(s, p, e) == <<" ">> \o SubSeq(s, p, e) \o <<" ">>

----------------------------------------------------------------------------
(* ChoCoTune._cleanup_chord_string, _remove_unsupported_annotations and     *)
(* _get_measures                                                            *)

\* utils.pad_substring(s, r"W(?:/[A-G][#b]?)?", recursive=True): every oval chord,
\* with its bass note, is set off by blanks
pad_ovals(s) == re_sub(s, oval_end, padded)

cleanup_chord_string(s0) ==
    LET s1 == re_sub(s0, barline_end, bar)
        s2 == re_sub(s1, LAMBDA s, p : lit_end(s, p, <<"c", "l">>), marker_x)
        s3 == re_sub(s2, stars_end, nothing)
        s4 == re_sub(s3, spacers_end, nothing)
        s5 == re_sub(s4, filler_end, blank)
        s6 == re_sub(s5, empty_measure_end, bar)
        s7 == delete_chars(s6, {"Z"})
        s8 == pad_ovals(s7)
        s9 == re_sub(s8, bar_spaces_end, bar)
        s10 == re_sub(s9, spaces_end, blank)
    IN  rstrip(s10)

remove_unsupported_annotations(s0) ==
    LET s1 == re_sub(s0, square_end, bar)
        s2 == re_sub(s1, empty_measure_end, bar)
        s3 == re_sub(s2, comment_end, nothing)
        s4 == re_sub(s3, alternative_end, blank)
        s5 == re_sub(s4, fermata_end, nothing)
        s6 == re_sub(s5, small_end, nothing)
        s7 == re_sub(s6, section_end, nothing)
    IN  re_sub(s7, time_signature_end, nothing)

\* r'\||LZ|K|Z|{|}|\[|\]'
separator_end(s, p) ==
    IF s[p] \in {"|", "K", "Z", "{", "}", "[", "]"} THEN p
    ELSE lit_end(s, p, <<"L", "Z">>)

\* re.split of the chord string at the bar separators
RECURSIVE re_split_from(_, _, _)
re_split_from(s, p, fragment) ==
    IF p > Len(s) THEN <<fragment>>
    ELSE LET e == separator_end(s, p)
         IN  IF e = 0 THEN re_split_from(s, p + 1, Append(fragment, s[p]))
             ELSE <<fragment>> \o re_split_from(s, e + 1, <<>>)
re_split(s) == re_split_from(s, 1, <<>>)

\* the measures of the chord string: the fragments that are not blank or that follow
\* an "r" fragment, stripped and without "U"
segment(s0) ==
    LET fragments == re_split(s0)
        kept == {i \in 1..Len(fragments) :
                    \/ strip(fragments[i]) # <<>>
                    \/ strip(at_index(fragments, i - 1)) = <<"r">>}
        stripped == [i \in 1..Len(fragments) |-> strip(fragments[i])]
        F[i \in 0..Len(fragments)] ==
            IF i = 0 THEN <<>>
            ELSE IF i \in kept
                 THEN Append(F[i - 1], strip(delete_chars(stripped[i], {"U"})))
                 ELSE F[i - 1]
    IN  F[Len(fragments)]

\* the strings the pipeline is run on are made of these pieces
Pieces ==
    {<<"C">>, <<"G", "7", "a", "l", "t">>, <<"F", "s", "u", "s">>, <<"|">>, <<" ">>,
     <<"x">>, <<"r">>, <<"U">>, <<"p">>, <<"{">>, <<"}">>}
MaxPieces == 3      \* most pieces of a chord string

ChordStrings == {join(l) : l \in ListsUpTo(Pieces, MaxPieces)}

InitPipeline ==
    /\ fn = "get_measures"
    /\ pc = "cleanup_chord_string"
    /\ arg \in ChordStrings
    /\ chord_string = arg
    /\ error = ""
    /\ measures = <<>>
    /\ NoAnnotations /\ NoBatch

\* a stage that rewrites the chord string
StringStage(stage, next, r) ==
    /\ fn = "get_measures" /\ pc = stage
    /\ pc' = IF r.err # "" THEN "raise" ELSE next
    /\ error' = r.err
    /\ chord_string' = IF r.err # "" THEN chord_string ELSE r.val
    /\ UNCHANGED <<fn, arg, measures, annotation_vars, batch_vars>>

\* a stage that rewrites the list of measures
ListStage(stage, next, r) ==
    /\ fn = "get_measures" /\ pc = stage
    /\ pc' = IF r.err # "" THEN "raise" ELSE next
    /\ error' = r.err
    /\ measures' = IF r.err # "" THEN measures ELSE r.val
    /\ UNCHANGED <<fn, arg, chord_string, annotation_vars, batch_vars>>

CleanupChordString ==
    StringStage("cleanup_chord_string", "insert_missing_repeat_brackets",
                Ok(cleanup_chord_string(chord_string)))
ReconcileBrackets ==
    StringStage("insert_missing_repeat_brackets", "remove_unsupported_annotations",
                Ok(insert_missing_repeat_brackets(chord_string)))
RemoveUnsupportedAnnotations ==
    StringStage("remove_unsupported_annotations", "fill_long_repeats",
                Ok(remove_unsupported_annotations(chord_string)))
ExpandRepeats ==
    StringStage("fill_long_repeats", "fill_codas", fill_long_repeats_all(chord_string))
ResolveCodas ==
    StringStage("fill_codas", "segment", fill_codas(chord_string))
Segment ==
    ListStage("segment", "fill_single_double_repeats", Ok(segment(chord_string)))
InfillMeasureRepeats ==
    ListStage("fill_single_double_repeats", "fill_slashes",
              fill_single_double_repeats(measures))
InfillSlashes ==
    ListStage("fill_slashes", "clean_measures", fill_slashes(measures))
CleanMeasures ==
    ListStage("clean_measures", "return", clean_measures(measures))

NextPipeline ==
    \/ CleanupChordString \/ ReconcileBrackets \/ RemoveUnsupportedAnnotations
    \/ ExpandRepeats \/ ResolveCodas \/ Segment
    \/ InfillMeasureRepeats \/ InfillSlashes \/ CleanMeasures

SpecPipeline == InitPipeline /\ [][NextPipeline]_vars

----------------------------------------------------------------------------
(* The number of measures after the segmenter                               *)

ListPasses == {"fill_single_double_repeats", "fill_slashes", "clean_measures"}

\* position k of a measure opens a fragment of the measure: a character that is
\* neither blank nor a marker, with only blanks between it and the marker before it
OpensFragment(measure, k) ==
    /\ ~IsSpace(measure[k]) /\ measure[k] \notin RepeatMarkers
    /\ \A j \in 1..(k - 1) :
          (\A h \in j..(k - 1) : measure[h] \notin RepeatMarkers) => IsSpace(measure[j])

\* the measures a measure stands for: one for each marker and each fragment between
\* markers, and one more for each "r"
MeasuresOf(measure) ==
    Cardinality({k \in 1..Len(measure) : measure[k] \in RepeatMarkers})
    + Cardinality({k \in 1..Len(measure) : OpensFragment(measure, k)})
    + Cardinality({k \in 1..Len(measure) : measure[k] = "r"})

RECURSIVE MeasuresOfAll(_)
MeasuresOfAll(ms) ==
    IF ms = <<>> THEN 0 ELSE MeasuresOf(Head(ms)) + MeasuresOfAll(Tail(ms))

\* C13 as stated: each of the three passes that follow the segmenter returns a list
\* as long as the list it received.
C13_AsStated ==
    [][(pc \in ListPasses /\ pc' # "raise") => Len(measures') = Len(measures)]_vars

\* C13, amended: the slash pass and the cleanup pass return a list as long as the list
\* they received; the single/double-measure repeat pass returns one measure for each
\* marker and each other non-blank fragment of the measures it received and one more
\* for each "r", so that it drops blank measures, splits a measure that holds a marker
\* beside other content, and adds a measure after each "r".
C13_MeasureCount ==
    [][/\ (pc \in {"fill_slashes", "clean_measures"} /\ pc' # "raise")
            => Len(measures') = Len(measures)
       /\ (pc = "fill_single_double_repeats" /\ pc' # "raise")
            => Len(measures') = MeasuresOfAll(measures)]_vars

\* the three passes have run on a list that the repeat pass made longer
C13_Witness ==
    /\ fn = "get_measures" /\ pc = "return"
    /\ Len(measures) > Len(segment(chord_string))
    /\ \E i \in 1..Len(measures) : measures[i] # <<>>

----------------------------------------------------------------------------
(* The measures returned by _get_measures                                   *)

\* C14 as stated: every measure that _get_measures returns holds at least one token,
\* so that the timing extractor can divide the beats of the measure by their number.
C14_AsStated ==
    (fn = "get_measures" /\ pc = "return")
        => \A i \in 1..Len(measures) : Len(split(measures[i])) > 0

\* a chart of chord tokens and bar lines only: no bracket, ending, coda, segno,
\* shorthand marker or annotation
PlainChart(s) ==
    \A k \in 1..Len(s) :
        s[k] \notin {"{", "}", "[", "]", "N", "Q", "S", "U", "x", "r", "p", "W", "n",
                     "<", ">", "(", ")", "*", "T", "Y", "Z", "K", "L", ","}

\* the tokens of each bar of a plain chart, read off the chart itself: the chart is
\* cut at its bar lines and the bars without token are left out
RECURSIVE BarsFrom(_, _, _)
BarsFrom(s, p, current) ==
    LET closed == IF split(current) = <<>> THEN <<>> ELSE <<split(current)>>
    IN  IF p > Len(s) THEN closed
        ELSE IF s[p] = "|" THEN closed \o BarsFrom(s, p + 1, <<>>)
        ELSE BarsFrom(s, p + 1, Append(current, s[p]))
Bars(s) == BarsFrom(s, 1, <<>>)

\* C15 as stated: a chart of chord tokens and bar lines only comes out of the stages
\* up to the intra-measure infilling with the same chord tokens, in the same order and
\* the same measures.
C15_AsStated ==
    (fn = "get_measures" /\ pc \in {"clean_measures", "return"} /\ PlainChart(arg))
        => [i \in 1..Len(measures) |-> split(measures[i])] = Bars(arg)

----------------------------------------------------------------------------
(* Unmatched close markers in the Repeat Expansion Engine                   *)

\* a "}" of the string that no "{" precedes
UnmatchedClose(s) ==
    \E j \in 1..Len(s) : s[j] = "}" /\ \A i \in 1..(j - 1) : s[i] # "{"

\* no "{" of the string has a "}" after it
NoCloseAfterOpen(s) ==
    \A i \in 1..Len(s) : s[i] = "{" => \A j \in (i + 1)..Len(s) : s[j] # "}"

\* C16 as stated: when the string given to the engine holds a "}" without a
\* matching "{", the engine raises an error and returns no string.
C16_AsStated == (Finished /\ UnmatchedClose(arg)) => pc = "raise"

\* C16, amended: a "}" without a matching "{" is not reported as an error; when no
\* "{" of the string has a "}" after it, the engine raises nothing and returns the
\* string as it received it, the unmatched "}" still in place.
C16_UnmatchedCloseIsKept ==
    (Finished /\ UnmatchedClose(arg) /\ NoCloseAfterOpen(arg))
        => (pc = "return" /\ error = "" /\ chord_string = arg)

\* the engine has returned a string that holds an unmatched "}" and a later "{"
C16_Witness ==
    /\ fn = "fill_long_repeats" /\ pc = "return"
    /\ UnmatchedClose(arg) /\ count(arg, "{") > 0
    /\ chord_string = arg

----------------------------------------------------------------------------
(* What the Repeat-Bracket Reconciler inserts                               *)

\* C17 as stated: the reconciler puts one "{" before the string when the counts of
\* "{" and "}" differ and a "}" comes before the first "{" (or there is no "{"), and
\* returns the string unchanged in every other case.
C17_AsStated ==
    (fn = "insert_missing_repeat_brackets" /\ pc = "return")
        => chord_string = IF ~Balanced(arg) /\ CloseComesFirst(arg)
                          THEN <<"{">> \o arg ELSE arg

\* C17, amended: the reconciler puts one "{" before the string whenever a "}" comes
\* before the first "{" (or there is no "{"), whether the counts of "{" and "}" are
\* equal or not, and returns the string unchanged in every other case; it never
\* inserts a "}".
C17_InsertsWhenCloseComesFirst ==
    (fn = "insert_missing_repeat_brackets" /\ pc = "return")
        => /\ chord_string = IF CloseComesFirst(arg) THEN <<"{">> \o arg ELSE arg
           /\ count(chord_string, "}") = count(arg, "}")

\* the reconciler has put a "{" before a string with as many "{" as "}"
C17_Witness ==
    /\ fn = "insert_missing_repeat_brackets" /\ pc = "return"
    /\ Balanced(arg) /\ count(arg, "{") > 0
    /\ chord_string = <<"{">> \o arg

----------------------------------------------------------------------------
(* The reach of one expansion of a repeat with numbered endings             *)

\* the string opens a repeat with numbered endings that is closed before the next
\* repeat group opens
NumberedGroupThenGroup(s) ==
    /\ Cardinality(Positions(s, "{")) >= 2
    /\ LET first == Min(Positions(s, "{"))
           next == Min(Positions(s, "{") \ {first})
       IN  /\ \E c \in Positions(s, "}") : first < c /\ c < next
           /\ \E n \in NdPositions(s) :
                 first < n /\ \A c \in Positions(s, "}") : first < c => n < c

\* the string from the "{" of its second repeat group on
FromNextGroup(s) ==
    LET first == Min(Positions(s, "{"))
    IN  SubSeq(s, Min(Positions(s, "{") \ {first}), Len(s))

IsSuffix(t, s) == Len(t) <= Len(s) /\ SubSeq(s, Len(s) - Len(t) + 1, Len(s)) = t

\* C18: the expansion of a repeat with numbered endings splices its pre-ending content
\* only before the ending markers that come before the next repeat group; the next
\* group and what follows it, ending markers included, are left as they are.
C18_LaterGroupsUntouched ==
    [][(fn = "fill_long_repeats" /\ pc = "call" /\ pc' # "raise"
        /\ NumberedGroupThenGroup(chord_string))
            => IsSuffix(FromNextGroup(chord_string), chord_string')]_vars

----------------------------------------------------------------------------
(* The end of the recursion of _fill_long_repeats                           *)

\* C19: on every input the recursion of _fill_long_repeats comes to a string in which
\* no group is found and returns it; no invocation ends otherwise.
C19_EndsByReturning == fn = "fill_long_repeats" => pc # "raise"

----------------------------------------------------------------------------
(* The slash pass as a state machine                                        *)

\* measures of chords and slashes, as the repeat pass hands them over
SlashMeasureKinds ==
    {<<"C">>, <<"F", "/", "A">>, <<"p">>, <<"C", " ", "p">>, <<"p", " ", "F">>,
     <<"C", "7", " ", "p", " ", "p">>, <<"D", " ", "p", " ", "G">>}
SlashInputs == ListsUpTo(SlashMeasureKinds, MaxMeasures)

InitSlashes ==
    /\ fn = "fill_slashes"
    /\ pc = "call"
    /\ arg \in SlashInputs
    /\ measures = arg
    /\ chord_string = <<>>
    /\ error = ""
    /\ NoAnnotations /\ NoBatch

FillSlashes ==
    /\ fn = "fill_slashes" /\ pc = "call"
    /\ LET r == fill_slashes(measures)
       IN  /\ pc' = IF r.err # "" THEN "raise" ELSE "return"
           /\ measures' = IF r.err # "" THEN measures ELSE r.val
           /\ error' = r.err
    /\ UNCHANGED <<fn, arg, chord_string, annotation_vars, batch_vars>>

NextSlashes == FillSlashes

SpecSlashes == InitSlashes /\ [][NextSlashes]_vars

\* the tokens measure i of the list is to hold after the pass: every "p" stands for
\* the token before it, and a "p" that opens the measure for the last token of the
\* measure before
RECURSIVE Filled(_, _)
Filled(ms, i) ==
    LET tokens == split(ms[i])
        F[k \in 0..Len(tokens)] ==
            IF k = 0 THEN <<>>
            ELSE Append(F[k - 1],
                        IF tokens[k] # <<"p">> THEN tokens[k]
                        ELSE IF k > 1 THEN F[k - 1][k - 1]
                        ELSE Last(Filled(ms, i - 1)))
    IN  F[Len(tokens)]

\* the list opens with a chord
OpensWithChord(ms) == ms # <<>> /\ Head(ms) # <<>> /\ Head(Head(ms)) # "p"

----------------------------------------------------------------------------
(* The fragments the Measure Segmenter keeps                                *)

\* the fragments of the list that are to be kept: those that are not blank, and a
\* blank one when the fragment just before it is "r"
RECURSIVE KeptFrom(_, _)
KeptFrom(fragments, i) ==
    IF i > Len(fragments) THEN <<>>
    ELSE (IF strip(fragments[i]) # <<>>
             \/ (i > 1 /\ strip(fragments[i - 1]) = <<"r">>)
          THEN <<strip(delete_chars(strip(fragments[i]), {"U"}))>>
          ELSE <<>>)
         \o KeptFrom(fragments, i + 1)

\* C21: the segmenter keeps an empty fragment of the split chord string only when the
\* fragment just before it is "r"; every other empty fragment, an empty first
\* fragment included, is left out of the measures.
C21_EmptyFragments ==
    (fn = "get_measures" /\ pc = "fill_single_double_repeats")
        => measures = KeptFrom(re_split(chord_string), 1)

----------------------------------------------------------------------------
(* Bar separators after the Normalizer                                      *)

\* two "|" of the string with nothing but blanks between them
DuplicateBars(s) ==
    \E i \in 1..Len(s) : \E j \in (i + 1)..Len(s) :
        /\ s[i] = "|" /\ s[j] = "|"
        /\ \A k \in (i + 1)..(j - 1) : IsSpace(s[k])

\* C22: the string _cleanup_chord_string returns holds no two "|" that are adjacent
\* or separated by blanks only.
C22_NoDuplicateBars ==
    (fn = "get_measures" /\ pc = "insert_missing_repeat_brackets")
        => ~DuplicateBars(chord_string)

============================================================================
